---- MODULE Spec2Model ----
(***************************************************************************)
(* Route preprocessing of calculate_routes.py: point decoding, nearest     *)
(* node snapping, shortest path, the transition classifier, the parallel   *)
(* batch (ProcessPoolExecutor) and the sequential activity loop of main.   *)
(*                                                                         *)
(* Representation.  A Python str is a sequence of one-character strings,   *)
(* so that split, lower, "in" and float are computed, not assumed.         *)
(* Coordinates are points of a grid whose spacing is 500 m; a distance is  *)
(* a whole number of hectometres (100 m), rounded down.  None is the       *)
(* record [none |-> TRUE].                                                 *)
(***************************************************************************)
EXTENDS Integers, Sequences, FiniteSets, Bags, TLC

VARIABLES
    pc,                              \* position of main
    data,                            \* what the input file holds      (l.115-116)
    df,                              \* the DataFrame of main           (l.117-124)
    data_timeline,                   \* list of {time, point}           (l.137)
    data_activity,                   \* list of activity requests       (l.146)
    max_workers,                     \* config compute.max_workers      (l.246)
    data_timelines_routes,           \* consecutive pairs               (l.168)
    data_timelines_routes_distance,  \* classified transition requests  (l.185)
    nearest_node_cache,              \* the dict of main                (l.199, l.208)
    futures,                         \* one entry per submitted request (l.93)
    results,                         \* results of the running batch    (l.85)
    pbar,                            \* progress counter                (l.89, l.101)
    parallel_routes_timeline,        \* value returned by the batch     (l.205)
    next_activity,                   \* position of the activity loop   (l.211)
    routes_activity,                 \* routes of the activity loop     (l.210)
    output,                          \* the document written to the output file
    calls                            \* history: bag of the calls made into osmnx / networkx

vars == <<pc, data, df, data_timeline, data_activity, max_workers, data_timelines_routes,
          data_timelines_routes_distance, nearest_node_cache, futures, results, pbar,
          parallel_routes_timeline, next_activity, routes_activity, output, calls>>

None == [none |-> TRUE]

-----------------------------------------------------------------------------
(* Bounds of the model.                                                    *)

MaxTimeline == 2      \* timeline points of a pipeline run
MaxActivities == 1    \* activity records of a pipeline run
MaxBatch == 3         \* requests of a batch run both ways
MaxWorkers == 2       \* largest max_workers
MaxRecords == 3       \* records of the input document of a whole run
MaxStamped == 2       \* records of a document given to the window filter

-----------------------------------------------------------------------------
(* Python str operations.                                                  *)

Digits == <<"0", "1", "2", "3", "4", "5", "6", "7", "8", "9">>

IsDigit(c) == \E i \in 1..10 : Digits[i] = c

DigitValue(c) == (CHOOSE i \in 1..10 : Digits[i] = c) - 1

Upper ==
    <<"A", "B", "C", "D", "E", "F", "G", "H", "I", "J", "K", "L", "M">> \o
    <<"N", "O", "P", "Q", "R", "S", "T", "U", "V", "W", "X", "Y", "Z">>

Lower ==
    <<"a", "b", "c", "d", "e", "f", "g", "h", "i", "j", "k", "l", "m">> \o
    <<"n", "o", "p", "q", "r", "s", "t", "u", "v", "w", "x", "y", "z">>

\* str.lower() on one character
LowerChar(c) ==
    IF \E i \in 1..Len(Upper) : Upper[i] = c
    THEN Lower[CHOOSE i \in 1..Len(Upper) : Upper[i] = c]
    ELSE c

\* str.lower()
StrLower(s) == [i \in 1..Len(s) |-> LowerChar(s[i])]

\* needle in s
Contains(s, needle) ==
    \E i \in 0..(Len(s) - Len(needle)) :
        \A j \in 1..Len(needle) : s[i + j] = needle[j]

\* str.split(sep) for a one-character separator: the list of the pieces between
\* the separators (always at least one piece, possibly the empty string)
RECURSIVE Split(_, _)
Split(s, sep) ==
    IF \A i \in 1..Len(s) : s[i] # sep
    THEN <<s>>
    ELSE LET k == CHOOSE i \in 1..Len(s) :
                      s[i] = sep /\ \A j \in 1..(i - 1) : s[j] # sep
         IN  <<SubSeq(s, 1, k - 1)>> \o Split(SubSeq(s, k + 1, Len(s)), sep)

\* float(s) succeeds; the model's inputs are unsigned decimal integers or not numbers
FloatOk(s) == Len(s) > 0 /\ \A i \in 1..Len(s) : IsDigit(s[i])

\* float(s)
RECURSIVE Float(_)
Float(s) ==
    IF Len(s) = 0 THEN 0
    ELSE 10 * Float(SubSeq(s, 1, Len(s) - 1)) + DigitValue(s[Len(s)])

\* tuple(map(float, text.split(':')[1].split(','))): [ok, val]; ok is FALSE when
\* the expression raises (IndexError of [1], ValueError of float)
ParseCoords(text) ==
    LET parts == Split(text, ":") IN
    IF Len(parts) < 2 THEN [ok |-> FALSE, val |-> <<>>]
    ELSE LET nums == Split(parts[2], ",") IN
         IF \E i \in 1..Len(nums) : ~FloatOk(nums[i])
         THEN [ok |-> FALSE, val |-> <<>>]
         ELSE [ok |-> TRUE, val |-> [i \in 1..Len(nums) |-> Float(nums[i])]]

-----------------------------------------------------------------------------
(* The two networks.  A graph is [name, nodes, y, x, length]: y and x give *)
(* each node's latitude and longitude, length gives the weight of each     *)
(* directed edge <<u, v>> in metres.  Both are built once and never change. *)

\* the pedestrian network: every street both ways, node 4 has no edges
walk_graph ==
    [name   |-> "walk",
     nodes  |-> {1, 2, 3, 4},
     y      |-> (1 :> 0) @@ (2 :> 0) @@ (3 :> 0) @@ (4 :> 1),
     x      |-> (1 :> 0) @@ (2 :> 2) @@ (3 :> 3) @@ (4 :> 0),
     length |-> (<<1, 2>> :> 1000) @@ (<<2, 1>> :> 1000) @@
                (<<2, 3>> :> 500)  @@ (<<3, 2>> :> 500) @@
                (<<1, 3>> :> 2000) @@ (<<3, 1>> :> 2000)]

\* the vehicular network: one-way streets, nothing leads back to node 1
drive_graph ==
    [name   |-> "drive",
     nodes  |-> {1, 3, 5},
     y      |-> (1 :> 0) @@ (3 :> 0) @@ (5 :> 1),
     x      |-> (1 :> 0) @@ (3 :> 3) @@ (5 :> 3),
     length |-> (<<1, 5>> :> 2000) @@ (<<5, 3>> :> 500) @@ (<<1, 3>> :> 3000)]

GraphNamed(n) == IF n = "walk" THEN walk_graph ELSE drive_graph

\* squared distance of two grid points, in cells
DistSq(y1, x1, y2, x2) == (y1 - y2) * (y1 - y2) + (x1 - x2) * (x1 - x2)

\* ox.distance.nearest_nodes(G, X=lon, Y=lat): the node closest to the point,
\* the first (smallest id) of them on a tie; however far the point is
nearest_nodes(G, X, Y) ==
    CHOOSE n \in G.nodes :
        \A m \in G.nodes :
            \/ DistSq(G.y[n], G.x[n], Y, X) < DistSq(G.y[m], G.x[m], Y, X)
            \/ DistSq(G.y[n], G.x[n], Y, X) = DistSq(G.y[m], G.x[m], Y, X) /\ n <= m

\* more than the length of any path without a repeated node
Unreachable(G) == 1 + Cardinality(G.nodes) * 3000

\* one round of edge relaxation over distances d from the source
RelaxOnce(G, d) ==
    [v \in G.nodes |->
        LET via == {d[e[1]] + G.length[e] : e \in {f \in DOMAIN G.length : f[2] = v}}
            best == IF via = {} THEN d[v]
                    ELSE CHOOSE c \in via : \A o \in via : c <= o
        IN  IF best < d[v] THEN best ELSE d[v]]

RECURSIVE Relax(_, _, _)
Relax(G, d, rounds) ==
    LET nd == RelaxOnce(G, d)
    IN  IF rounds = 0 \/ nd = d THEN d ELSE Relax(G, nd, rounds - 1)

\* weighted distance from source to every node (Unreachable(G) or more: no path)
DistancesFrom(G, source) ==
    Relax(G, [v \in G.nodes |-> IF v = source THEN 0 ELSE Unreachable(G)],
          Cardinality(G.nodes))

\* the path read back from the target along tight edges
RECURSIVE PathBack(_, _, _, _)
PathBack(G, d, source, v) ==
    IF v = source THEN <<source>>
    ELSE LET preds == {u \in G.nodes : <<u, v>> \in DOMAIN G.length
                                        /\ d[u] + G.length[<<u, v>>] = d[v]}
             u == CHOOSE p \in preds : \A q \in preds : p <= q
         IN  Append(PathBack(G, d, source, u), v)

\* (mutant) the search without weight='length': a path of the fewest edges
shortest_path_hops(G, source, target) ==
    LET H == [G EXCEPT !.length = [e \in DOMAIN G.length |-> 1]]
        d == DistancesFrom(H, source)
    IN  IF d[target] >= Unreachable(H) THEN [ok |-> FALSE, path |-> <<>>]
        ELSE [ok |-> TRUE, path |-> PathBack(H, d, source, target)]

\* nx.shortest_path(G, source, target, weight='length'): [ok, path]; ok is FALSE
\* when networkx raises NetworkXNoPath
shortest_path(G, source, target) ==
    LET d == DistancesFrom(G, source) IN
    IF d[target] >= Unreachable(G) THEN [ok |-> FALSE, path |-> <<>>]
    ELSE [ok |-> TRUE, path |-> PathBack(G, d, source, target)]

-----------------------------------------------------------------------------
(* The resolver and the route computer.                                    *)

\* cached_nearest_node(G, lat, lon, nearest_node_cache): [node, cache, searched];
\* the key is the exact (lat, lon) pair and does not name the graph; searched
\* tells whether nearest_nodes ran.  No call of it is left in the program
\* (l.51-52 are comments).
cached_nearest_node(G, lat, lon, cache) ==
    LET key == <<lat, lon>> IN
    IF key \notin DOMAIN cache
    THEN LET node == nearest_nodes(G, lon, lat)
         IN  [node |-> node, cache |-> cache @@ (key :> node), searched |-> TRUE]
    ELSE [node |-> cache[key], cache |-> cache, searched |-> FALSE]

\* (mutant) the resolver of l.51-52: cached_nearest_node on its default cache,
\* one dict for every call, whatever the graph
get_nearest_node_shared(G, lat, lon) ==
    LET seen == {c \in BagToSet(calls) : c.fn = "nearest_nodes" /\ c.args = <<lat, lon>>}
    IN  IF seen # {} THEN (CHOOSE c \in seen : TRUE).ret[1]
        ELSE nearest_nodes(G, lon, lat)

\* get_nearest_node(G, lat, lon): a search on every call
get_nearest_node(G, lat, lon) == nearest_nodes(G, lon, lat)

\* (mutant) the test without lower()
ModeOfCaseSensitive(type) ==
    IF Contains(type, <<"w", "a", "l", "k", "i", "n", "g">>)
    THEN "walk" ELSE "drive"

StrWalking == <<"w", "a", "l", "k", "i", "n", "g">>

StrVehicle ==
    <<"i", "n", " ", "a", " ", "p", "a", "s", "s", "e", "n", "g", "e", "r", " ">> \o
    <<"v", "e", "h", "i", "c", "l", "e">>

\* 'walk' if 'walking' in activity['type'].lower() else 'drive'
ModeOf(type) ==
    IF Contains(StrLower(type), StrWalking)
    THEN "walk" ELSE "drive"

NearestCall(G, lat, lon, node) ==
    [fn |-> "nearest_nodes", G |-> G.name, args |-> <<lat, lon>>, ret |-> <<node>>]

PathCall(G, source, target, path) ==
    [fn |-> "shortest_path", G |-> G.name, args |-> <<source, target>>, ret |-> path]

\* [(G.nodes[n]['y'], G.nodes[n]['x']) for n in route]
RouteCoords(G, route) == [i \in 1..Len(route) |-> <<G.y[route[i]], G.x[route[i]]>>]

\* (mutant) the Route carries the mode the graph was picked by
RouteOfNormalized(activity, route_coords) ==
    [type   |-> IF Contains(StrLower(activity.type), <<"w", "a", "l", "k", "i", "n", "g">>)
                THEN <<"w", "a", "l", "k">> ELSE <<"d", "r", "i", "v", "e">>,
     time   |-> activity.time,
     start  |-> activity.start,
     end    |-> activity.end,
     coords |-> route_coords]

\* the dict returned on success (l.65-71)
RouteOf(activity, route_coords) ==
    [type   |-> activity.type,
     time   |-> activity.time,
     start  |-> activity.start,
     end    |-> activity.end,
     coords |-> route_coords]

\* compute_single_route(activity, walk_graph, drive_graph, nearest_node_cache):
\* [ret, made, cache]: ret is the returned dict or None, made the library calls
\* in the order they were made, cache the dict passed in as the call leaves it
compute_single_route(activity, wg, dg, cache) ==
    LET start_coords == ParseCoords(activity.start)
        end_coords   == ParseCoords(activity.end)
        G            == IF ModeOf(activity.type) = "walk" THEN wg ELSE dg
        fail(made)   == [ret |-> None, made |-> made, cache |-> cache]
    IN
    IF ~start_coords.ok \/ ~end_coords.ok THEN fail(<<>>)
    ELSE IF Len(start_coords.val) < 2 THEN fail(<<>>)
    ELSE
      LET start_node == get_nearest_node(G, start_coords.val[1], start_coords.val[2])
          c1 == NearestCall(G, start_coords.val[1], start_coords.val[2], start_node)
      IN
      IF Len(end_coords.val) < 2 THEN fail(<<c1>>)
      ELSE
        LET end_node == get_nearest_node(G, end_coords.val[1], end_coords.val[2])
            c2 == NearestCall(G, end_coords.val[1], end_coords.val[2], end_node)
            route == shortest_path(G, start_node, end_node)
            c3 == PathCall(G, start_node, end_node, route.path)
        IN
        IF ~route.ok THEN fail(<<c1, c2, c3>>)
        ELSE [ret   |-> RouteOf(activity, RouteCoords(G, route.path)),
              made  |-> <<c1, c2, c3>>,
              cache |-> cache]

-----------------------------------------------------------------------------
(* The transition classifier of main.                                      *)

\* largest whole r with r * r <= v
ISqrt(v) == CHOOSE r \in 0..(v + 1) : r * r <= v /\ (r + 1) * (r + 1) > v

\* geopy.distance.distance(a, b).km on the grid, in hectometres: one cell is 5 hm
GeoDistance(a, b) == ISqrt(25 * DistSq(a[1], a[2], b[1], b[2]))

\* get_distance(start, end) of main: [ok, dist]; ok is FALSE when it raises
\* (IndexError of [1], [0]; ValueError of float).  Only the first two numbers of
\* a point are read.
get_distance(start, end) ==
    LET ps == Split(start, ":")
        pe == Split(end, ":")
        bad == [ok |-> FALSE, dist |-> 0]
    IN
    IF Len(ps) < 2 THEN bad
    ELSE IF Len(pe) < 2 THEN bad
    ELSE LET s == Split(ps[2], ",")
             e == Split(pe[2], ",")
         IN  IF Len(s) < 2 \/ ~FloatOk(s[1]) \/ ~FloatOk(s[2]) THEN bad
             ELSE IF Len(e) < 2 \/ ~FloatOk(e[1]) \/ ~FloatOk(e[2]) THEN bad
             ELSE [ok |-> TRUE,
                   dist |-> GeoDistance(<<Float(s[1]), Float(s[2])>>,
                                        <<Float(e[1]), Float(e[2])>>)]

\* 1.0 km in hectometres
OneKm == 10

\* (mutant) the threshold taken inclusive
IsDrivingInclusive(dist) == dist >= OneKm

\* dist > 1.0
IsDriving(dist) == dist > OneKm

\* the label given to a transition (l.188-191)
TypeOfDistance(dist) == IF IsDriving(dist) THEN StrVehicle ELSE StrWalking

\* one element of data_timelines_routes_distance (l.192-197)
Classified(el, dist) ==
    [start |-> el.start, end |-> el.end, time |-> el.time, type |-> TypeOfDistance(dist)]

\* data_timelines_routes (l.168-174)
TimelineRoutes(timeline) ==
    [i \in 1..(IF Len(timeline) = 0 THEN 0 ELSE Len(timeline) - 1) |->
        [start |-> timeline[i].point, end |-> timeline[i + 1].point, time |-> timeline[i].time]]

-----------------------------------------------------------------------------
(* main, from the prepared lists (l.166) to the written document (l.226).  *)

\* the bag of a list's elements
BagOfSeq(q) == [e \in {q[i] : i \in 1..Len(q)} |-> Cardinality({i \in 1..Len(q) : q[i] = e})]

\* l.166-174: the consecutive pairs of the timeline
BuildTimelineRoutes ==
    /\ pc = "prepared"
    /\ data_timelines_routes' = TimelineRoutes(data_timeline)
    /\ pc' = "classify"
    /\ UNCHANGED <<data, df, data_timeline, data_activity, max_workers, data_timelines_routes_distance,
                   nearest_node_cache, futures, results, pbar, parallel_routes_timeline,
                   next_activity, routes_activity, output, calls>>

\* some element of the list makes get_distance raise
ClassifyRaises(routes) ==
    \E i \in 1..Len(routes) : ~get_distance(routes[i].start, routes[i].end).ok

\* l.183-197: the loop that labels every transition; get_distance is called
\* outside any try, so an exception it raises ends main
ClassifyRoutes ==
    /\ pc = "classify"
    /\ IF ClassifyRaises(data_timelines_routes)
       THEN /\ pc' = "crashed"
            /\ UNCHANGED data_timelines_routes_distance
       ELSE /\ pc' = "parallel"
            /\ data_timelines_routes_distance' =
                   [i \in 1..Len(data_timelines_routes) |->
                       Classified(data_timelines_routes[i],
                                  get_distance(data_timelines_routes[i].start,
                                               data_timelines_routes[i].end).dist)]
    /\ UNCHANGED <<data, df, data_timeline, data_activity, max_workers, data_timelines_routes,
                   nearest_node_cache, futures, results, pbar, parallel_routes_timeline,
                   next_activity, routes_activity, output, calls>>

\* l.199-205, l.85-92: the cache of main is reset and parallel_preprocess_routes
\* is entered: empty results, progress bar at 0, a fresh executor
EnterBatch ==
    /\ pc = "parallel"
    /\ nearest_node_cache' = <<>>
    /\ results' = <<>>
    /\ pbar' = 0
    /\ futures' = <<>>
    /\ pc' = "batch"
    /\ UNCHANGED <<data, df, data_timeline, data_activity, max_workers, data_timelines_routes,
                   data_timelines_routes_distance, parallel_routes_timeline,
                   next_activity, routes_activity, output, calls>>

\* l.93-96: executor.submit for the next request; the arguments, the cache among
\* them, are pickled for the worker process, which works on its own copy
Submit ==
    /\ pc = "batch"
    /\ Len(futures) < Len(data_timelines_routes_distance)
    /\ futures' = Append(futures, [state |-> "pending", result |-> None,
                                   cache |-> nearest_node_cache])
    /\ UNCHANGED <<pc, data, df, data_timeline, data_activity, max_workers, data_timelines_routes,
                   data_timelines_routes_distance, nearest_node_cache, results, pbar,
                   parallel_routes_timeline, next_activity, routes_activity, output, calls>>

Running == {i \in 1..Len(futures) : futures[i].state = "running"}

\* (mutant) a pool that starts a process for every request
WorkerFreeAlways == TRUE

\* ProcessPoolExecutor(max_workers=max_workers): a process is free to take a request
WorkerFree == Cardinality(Running) < max_workers

\* a worker process takes the oldest pending request off the call queue
WorkerStart(i) ==
    /\ pc = "batch"
    /\ futures[i].state = "pending"
    /\ \A j \in 1..(i - 1) : futures[j].state # "pending"
    /\ WorkerFree
    /\ futures' = [futures EXCEPT ![i].state = "running"]
    /\ UNCHANGED <<pc, data, df, data_timeline, data_activity, max_workers, data_timelines_routes,
                   data_timelines_routes_distance, nearest_node_cache, results, pbar,
                   parallel_routes_timeline, next_activity, routes_activity, output, calls>>

\* (mutant) the two graphs are passed to the worker in the other order
WorkerComputeSwapped(i) ==
    compute_single_route(data_timelines_routes_distance[i], drive_graph, walk_graph,
                         futures[i].cache)

\* the value a worker hands back for request i, computed on the worker's copies
WorkerCompute(i) ==
    compute_single_route(data_timelines_routes_distance[i], walk_graph, drive_graph,
                         futures[i].cache)

\* the worker process ends compute_single_route and sets the future's result
WorkerFinish(i) ==
    /\ pc = "batch"
    /\ futures[i].state = "running"
    /\ LET r == WorkerCompute(i)
       IN  /\ futures' = [futures EXCEPT ![i] = [state  |-> "finished",
                                                 result |-> r.ret,
                                                 cache  |-> r.cache]]
           /\ calls' = calls (+) BagOfSeq(r.made)
    /\ UNCHANGED <<pc, data, df, data_timeline, data_activity, max_workers, data_timelines_routes,
                   data_timelines_routes_distance, nearest_node_cache, results, pbar,
                   parallel_routes_timeline, next_activity, routes_activity, output>>

\* (mutant) the result is appended without the test for None
CollectedAll(list, res) == Append(list, res)

\* l.98-100 and l.213-214: a result is kept unless it is None
Collected(list, res) == IF res # None THEN Append(list, res) ELSE list

\* l.97-101: as_completed yields a finished future, in no particular order, once
\* every request is submitted; its result is collected and the bar advances
Consume(i) ==
    /\ pc = "batch"
    /\ Len(futures) = Len(data_timelines_routes_distance)
    /\ futures[i].state = "finished"
    /\ results' = Collected(results, futures[i].result)
    /\ pbar' = pbar + 1
    /\ futures' = [futures EXCEPT ![i].state = "consumed"]
    /\ UNCHANGED <<pc, data, df, data_timeline, data_activity, max_workers, data_timelines_routes,
                   data_timelines_routes_distance, nearest_node_cache,
                   parallel_routes_timeline, next_activity, routes_activity, output, calls>>

\* (mutant) the results are returned once every request has finished, whether
\* or not its future was yielded
ReturnBatchEarly ==
    /\ pc = "batch"
    /\ Len(futures) = Len(data_timelines_routes_distance)
    /\ \A i \in 1..Len(futures) : futures[i].state \in {"finished", "consumed"}
    /\ parallel_routes_timeline' = results
    /\ pc' = "activities"
    /\ UNCHANGED <<data, df, data_timeline, data_activity, max_workers, data_timelines_routes,
                   data_timelines_routes_distance, nearest_node_cache, futures, results,
                   pbar, next_activity, routes_activity, output, calls>>

\* l.102-104, l.205: every future was yielded; the executor shuts down and the
\* results are returned to main
ReturnBatch ==
    /\ pc = "batch"
    /\ Len(futures) = Len(data_timelines_routes_distance)
    /\ \A i \in 1..Len(futures) : futures[i].state = "consumed"
    /\ parallel_routes_timeline' = results
    /\ pc' = "activities"
    /\ UNCHANGED <<data, df, data_timeline, data_activity, max_workers, data_timelines_routes,
                   data_timelines_routes_distance, nearest_node_cache, futures, results,
                   pbar, next_activity, routes_activity, output, calls>>

\* l.207-210: a fresh cache and an empty list for the activity loop
EnterActivities ==
    /\ pc = "activities"
    /\ nearest_node_cache' = <<>>
    /\ routes_activity' = <<>>
    /\ next_activity' = 1
    /\ pc' = "loop"
    /\ UNCHANGED <<data, df, data_timeline, data_activity, max_workers, data_timelines_routes,
                   data_timelines_routes_distance, futures, results, pbar,
                   parallel_routes_timeline, output, calls>>

\* the call of l.212 for the activity the loop is at
ActivityCompute ==
    compute_single_route(data_activity[next_activity], walk_graph, drive_graph,
                         nearest_node_cache)

\* l.211-214: one iteration of the activity loop, on the calling thread
ActivityStep ==
    /\ pc = "loop"
    /\ next_activity <= Len(data_activity)
    /\ LET r == ActivityCompute
       IN  /\ routes_activity' = Collected(routes_activity, r.ret)
           /\ nearest_node_cache' = r.cache
           /\ calls' = calls (+) BagOfSeq(r.made)
    /\ next_activity' = next_activity + 1
    /\ UNCHANGED <<pc, data, df, data_timeline, data_activity, max_workers, data_timelines_routes,
                   data_timelines_routes_distance, futures, results, pbar,
                   parallel_routes_timeline, output>>

\* (mutant) the dump moved into the body of the activity loop
SaveOutputEarly ==
    /\ pc = "loop"
    /\ output' = [routes          |-> routes_activity,
                  routes_timeline |-> parallel_routes_timeline,
                  timeline        |-> data_timeline]
    /\ pc' = "done"
    /\ UNCHANGED <<data, df, data_timeline, data_activity, max_workers, data_timelines_routes,
                   data_timelines_routes_distance, nearest_node_cache, futures, results,
                   pbar, parallel_routes_timeline, next_activity, routes_activity, calls>>

\* l.216-226: the loop is over and the document is written (visits, which take
\* no part in routing, are left out)
SaveOutput ==
    /\ pc = "loop"
    /\ next_activity > Len(data_activity)
    /\ output' = [routes          |-> routes_activity,
                  routes_timeline |-> parallel_routes_timeline,
                  timeline        |-> data_timeline]
    /\ pc' = "done"
    /\ UNCHANGED <<data, df, data_timeline, data_activity, max_workers, data_timelines_routes,
                   data_timelines_routes_distance, nearest_node_cache, futures, results,
                   pbar, parallel_routes_timeline, next_activity, routes_activity, calls>>

-----------------------------------------------------------------------------
(* main, from its first line to the prepared lists (l.107-164).  A record  *)
(* of the input is [startTime, endTime, kind, value]: kind is the key it   *)
(* carries ("timelinePath", "activity" or "visit") and value what is under *)
(* it.  A DataFrame is [columns, rows]; its columns are the keys that some *)
(* record of the document carries.  A timestamp is "<day>T<hour>" and a    *)
(* suffix "Z" or "+hh:mm" / "-hh:mm".                                      *)

\* ord(c) for the characters of a timestamp
Ord(c) ==
    CASE c = "+" -> 43
      [] c = "-" -> 45
      [] IsDigit(c) -> 48 + DigitValue(c)
      [] c = ":" -> 58
      [] c = "T" -> 84
      [] c = "Z" -> 90

\* a < b on str: by the first character that differs, a proper prefix first
StrLess(a, b) ==
    \E k \in 1..(Len(b)) :
        /\ \A j \in 1..(k - 1) : j <= Len(a) /\ a[j] = b[j]
        /\ \/ k = Len(a) + 1
           \/ k <= Len(a) /\ Ord(a[k]) < Ord(b[k])

\* x.replace('Z', '+00:00')
RECURSIVE ReplaceZ(_)
ReplaceZ(x) ==
    IF Len(x) = 0 THEN <<>>
    ELSE (IF Head(x) = "Z" THEN <<"+", "0", "0", ":", "0", "0">> ELSE <<Head(x)>>)
         \o ReplaceZ(Tail(x))

\* x[:-6]
DropLast6(x) == SubSeq(x, 1, Len(x) - 6)

\* the lambda of l.123-124
StripZone(x) == DropLast6(ReplaceZ(x))

\* config map.start and map.end (l.242-243)
window_start == <<"1", "T", "0", "1", "Z">>

window_end == <<"1", "T", "0", "5", "Z">>

\* the mask of l.120, on the timestamps as they are in the frame
InWindow(row) == StrLess(window_start, row.startTime) /\ StrLess(row.endTime, window_end)

\* pd.DataFrame(data)
DataFrame(records) ==
    [columns |-> (IF Len(records) = 0 THEN {} ELSE {"startTime", "endTime"})
                 \cup {records[i].kind : i \in 1..Len(records)},
     rows    |-> records]

\* df[~pd.isna(df[column])]: the rows that carry the key
RowsWith(frame, column) ==
    LET Has(row) == row.kind = column IN SelectSeq(frame.rows, Has)

\* the orders sort_values(by="startTime") may leave the rows in: ascending,
\* rows of equal startTime either way round (the default sort is not stable)
SortedOrders(rows) ==
    {q \in [1..Len(rows) -> 1..Len(rows)] :
        /\ \A i, j \in 1..Len(rows) : i # j => q[i] # q[j]
        /\ \A i \in 1..(Len(rows) - 1) : ~StrLess(rows[q[i + 1]].startTime, rows[q[i]].startTime)}

\* l.137-140: every point of every path, under the startTime of its row
RECURSIVE FlattenTimeline(_)
FlattenTimeline(rows) ==
    IF Len(rows) = 0 THEN <<>>
    ELSE [i \in 1..Len(Head(rows).value) |->
             [time |-> Head(rows).startTime, point |-> Head(rows).value[i].point]]
         \o FlattenTimeline(Tail(rows))

\* l.143-154: one request for every activity row
ActivitiesOf(rows) ==
    [i \in 1..Len(rows) |->
        [time  |-> rows[i].startTime,
         point |-> rows[i].value.start,
         type  |-> rows[i].value.topCandidate.type,
         start |-> rows[i].value.start,
         end   |-> rows[i].value.end]]

\* l.238-249: config.yaml holds every key read, and main is called
LoadConfig ==
    /\ pc = "config"
    /\ pc' = "start"
    /\ UNCHANGED <<data, df, data_timeline, data_activity, max_workers, data_timelines_routes,
                   data_timelines_routes_distance, nearest_node_cache, futures, results,
                   pbar, parallel_routes_timeline, next_activity, routes_activity, output,
                   calls>>

\* l.238-247: config.yaml is missing, is no YAML or lacks a key, and the
\* script ends on the exception
LoadConfigMalformed ==
    /\ pc = "config"
    /\ pc' = "crashed"
    /\ UNCHANGED <<data, df, data_timeline, data_activity, max_workers, data_timelines_routes,
                   data_timelines_routes_distance, nearest_node_cache, futures, results,
                   pbar, parallel_routes_timeline, next_activity, routes_activity, output,
                   calls>>

\* l.111-112: both networks are built
LoadGraphs ==
    /\ pc = "start"
    /\ pc' = "open"
    /\ UNCHANGED <<data, df, data_timeline, data_activity, max_workers, data_timelines_routes,
                   data_timelines_routes_distance, nearest_node_cache, futures, results,
                   pbar, parallel_routes_timeline, next_activity, routes_activity, output,
                   calls>>

\* l.111-112: osmnx finds no node around center_point and raises
LoadGraphsEmpty ==
    /\ pc = "start"
    /\ pc' = "crashed"
    /\ UNCHANGED <<data, df, data_timeline, data_activity, max_workers, data_timelines_routes,
                   data_timelines_routes_distance, nearest_node_cache, futures, results,
                   pbar, parallel_routes_timeline, next_activity, routes_activity, output,
                   calls>>

\* l.114-117: the input file is parsed and framed; json.load raises on a file
\* that is no JSON
LoadData ==
    /\ pc = "open"
    /\ IF data.ok
       THEN df' = DataFrame(data.records) /\ pc' = "filter"
       ELSE df' = df /\ pc' = "crashed"
    /\ UNCHANGED <<data, data_timeline, data_activity, max_workers, data_timelines_routes,
                   data_timelines_routes_distance, nearest_node_cache, futures, results,
                   pbar, parallel_routes_timeline, next_activity, routes_activity, output,
                   calls>>

\* l.119-120: the rows inside the window are kept; df["startTime"] raises
\* KeyError on a frame without that column
FilterWindow ==
    /\ pc = "filter"
    /\ IF {"startTime", "endTime"} \subseteq df.columns
       THEN df' = [df EXCEPT !.rows = SelectSeq(df.rows, InWindow)] /\ pc' = "strip"
       ELSE df' = df /\ pc' = "crashed"
    /\ UNCHANGED <<data, data_timeline, data_activity, max_workers, data_timelines_routes,
                   data_timelines_routes_distance, nearest_node_cache, futures, results,
                   pbar, parallel_routes_timeline, next_activity, routes_activity, output,
                   calls>>

\* l.122-124: the zone suffix is cut off both time columns
StripTimezone ==
    /\ pc = "strip"
    /\ df' = [df EXCEPT !.rows =
                 [i \in 1..Len(df.rows) |->
                     [df.rows[i] EXCEPT !.startTime = StripZone(df.rows[i].startTime),
                                        !.endTime   = StripZone(df.rows[i].endTime)]]]
    /\ pc' = "split"
    /\ UNCHANGED <<data, data_timeline, data_activity, max_workers, data_timelines_routes,
                   data_timelines_routes_distance, nearest_node_cache, futures, results,
                   pbar, parallel_routes_timeline, next_activity, routes_activity, output,
                   calls>>

\* l.126-164: the frame is split by kind and the lists are built; a column that
\* no record of the document carries raises KeyError (visits, which take no
\* part in routing, are not kept)
PrepareLists ==
    /\ pc = "split"
    /\ IF {"timelinePath", "visit", "activity"} \subseteq df.columns
       THEN /\ \E q \in SortedOrders(RowsWith(df, "timelinePath")) :
                  data_timeline' =
                      FlattenTimeline([i \in 1..Len(q) |-> RowsWith(df, "timelinePath")[q[i]]])
            /\ data_activity' = ActivitiesOf(RowsWith(df, "activity"))
            /\ pc' = "prepared"
       ELSE /\ UNCHANGED <<data_timeline, data_activity>>
            /\ pc' = "crashed"
    /\ UNCHANGED <<data, df, max_workers, data_timelines_routes,
                   data_timelines_routes_distance, nearest_node_cache, futures, results,
                   pbar, parallel_routes_timeline, next_activity, routes_activity, output,
                   calls>>

-----------------------------------------------------------------------------
(* Inputs.                                                                 *)

\* well-formed points "<label>:<lat>,<lon>"
PtA == <<"A", ":", "0", ",", "0">>

PtB == <<"B", ":", "0", ",", "2">>

PtC == <<"C", ":", "0", ",", "3">>

PtD == <<"D", ":", "1", ",", "0">>

\* malformed points: no ':', a coordinate that is no number, one coordinate only
PtNoColon == <<"E", "0", ",", "0">>

PtNotNumber == <<"F", ":", "x", ",", "0">>

PtOneCoord == <<"G", ":", "3">>

GoodPoints == {PtA, PtB, PtC, PtD}

BadPoints == {PtNoColon, PtNotNumber, PtOneCoord}

\* declared activity types
TyUpper == <<"W", "A", "L", "K", "I", "N", "G">>

TyNordic == <<"N", "o", "r", "d", "i", "c", " ", "W", "a", "l", "k", "i", "n", "g">>

TyWalk == <<"w", "a", "l", "k">>

TyCycling == <<"c", "y", "c", "l", "i", "n", "g">>

Types == {StrWalking, TyUpper, TyNordic, TyWalk, TyCycling, StrVehicle}

\* timestamps, as opaque values in chronological order
Times == {1, 2}

SeqsUpTo(S, n) == UNION {[1..k -> S] : k \in 0..n}

\* an element of data_activity (l.148-154)
Activity(time, type, start, end) ==
    [time |-> time, point |-> start, type |-> type, start |-> start, end |-> end]

\* a request as parallel_preprocess_routes receives it (l.192-197)
Request(time, type, start, end) ==
    [start |-> start, end |-> end, time |-> time, type |-> type]

\* timeline points of a pipeline run
TimelinePoints == {PtA, PtB, PtC, PtNoColon}

\* data_timeline is in the order of startTime (l.134)
Timelines ==
    {q \in SeqsUpTo([time : Times, point : TimelinePoints], MaxTimeline) :
        \A i \in 1..(Len(q) - 1) : q[i].time <= q[i + 1].time}

\* activities of a pipeline run
ActivityPool ==
    {Activity(1, StrWalking, PtA, PtC),
     Activity(2, TyUpper, PtD, PtA),
     Activity(1, StrVehicle, PtA, PtC),
     Activity(2, TyCycling, PtNoColon, PtA)}

\* a DataFrame without rows or columns
NoFrame == [columns |-> {}, rows |-> <<>>]

\* the input document and the frame are not read after l.164; the states that
\* start past it leave them empty
FrameDropped ==
    /\ data = [ok |-> TRUE, records |-> <<>>]
    /\ df = NoFrame

\* locals of main that are not yet assigned
Unassigned ==
    /\ data_timelines_routes = <<>>
    /\ data_timelines_routes_distance = <<>>
    /\ nearest_node_cache = <<>>
    /\ futures = <<>>
    /\ results = <<>>
    /\ pbar = 0
    /\ parallel_routes_timeline = <<>>
    /\ next_activity = 0
    /\ routes_activity = <<>>
    /\ output = None
    /\ calls = EmptyBag

\* main after the lists are prepared (l.107-164)
Init ==
    /\ pc = "prepared"
    /\ FrameDropped
    /\ data_timeline \in Timelines
    /\ data_activity \in SeqsUpTo(ActivityPool, MaxActivities)
    /\ max_workers \in 1..MaxWorkers
    /\ Unassigned

Next ==
    \/ BuildTimelineRoutes
    \/ ClassifyRoutes
    \/ EnterBatch
    \/ Submit
    \/ \E i \in 1..Len(futures) : WorkerStart(i)
    \/ \E i \in 1..Len(futures) : WorkerFinish(i)
    \/ \E i \in 1..Len(futures) : Consume(i)
    \/ ReturnBatch
    \/ EnterActivities
    \/ ActivityStep
    \/ SaveOutput

Spec == Init /\ [][Next]_vars

-----------------------------------------------------------------------------
(* One batch of requests given to parallel_preprocess_routes and to the    *)
(* sequential loop.                                                        *)

\* a walk, a drive from a point that snaps to another node id on the other
\* network, a walk from the node without edges, a malformed start
RequestPool ==
    {Request(1, StrWalking, PtA, PtC),
     Request(1, StrVehicle, PtD, PtC),
     Request(2, StrWalking, PtD, PtA),
     Request(2, StrWalking, PtNotNumber, PtB)}

AsActivity(r) == Activity(r.time, r.type, r.start, r.end)

BatchInit ==
    /\ pc = "parallel"
    /\ FrameDropped
    /\ data_timeline = <<>>
    /\ \E batch \in SeqsUpTo(RequestPool, MaxBatch) :
          /\ data_timelines_routes_distance = batch
          /\ data_activity = [i \in 1..Len(batch) |-> AsActivity(batch[i])]
    /\ max_workers \in 1..MaxWorkers
    /\ data_timelines_routes = <<>>
    /\ nearest_node_cache = <<>>
    /\ futures = <<>>
    /\ results = <<>>
    /\ pbar = 0
    /\ parallel_routes_timeline = <<>>
    /\ next_activity = 0
    /\ routes_activity = <<>>
    /\ output = None
    /\ calls = EmptyBag

BatchNext ==
    \/ EnterBatch
    \/ Submit
    \/ \E i \in 1..Len(futures) : WorkerStart(i)
    \/ \E i \in 1..Len(futures) : WorkerFinish(i)
    \/ \E i \in 1..Len(futures) : Consume(i)
    \/ ReturnBatch
    \/ EnterActivities
    \/ ActivityStep
    \/ SaveOutput

BatchSpec == BatchInit /\ [][BatchNext]_vars

-----------------------------------------------------------------------------
(* compute_single_route on one request, through the activity loop.         *)

RouteInit ==
    /\ pc = "activities"
    /\ FrameDropped
    /\ data_timeline = <<>>
    /\ \E t \in Times, ty \in Types, s \in GoodPoints \cup BadPoints,
          e \in GoodPoints \cup BadPoints :
          data_activity = <<Activity(t, ty, s, e)>>
    /\ max_workers = 1
    /\ Unassigned

RouteNext ==
    \/ EnterActivities
    \/ ActivityStep
    \/ SaveOutput

RouteSpec == RouteInit /\ [][RouteNext]_vars

-----------------------------------------------------------------------------
(* A whole run of the script, from l.230 on.                                *)

TimelineRecord(startTime, endTime, points) ==
    [startTime |-> startTime, endTime |-> endTime, kind |-> "timelinePath",
     value |-> [i \in 1..Len(points) |-> [point |-> points[i]]]]

ActivityRecord(startTime, endTime, type, from, to) ==
    [startTime |-> startTime, endTime |-> endTime, kind |-> "activity",
     value |-> [start |-> from, end |-> to, topCandidate |-> [type |-> type]]]

VisitRecord(startTime, endTime, place) ==
    [startTime |-> startTime, endTime |-> endTime, kind |-> "visit",
     value |-> [topCandidate |-> [placeLocation |-> place]]]

St02Z == <<"1", "T", "0", "2", "Z">>

St03Z == <<"1", "T", "0", "3", "Z">>

St04Z == <<"1", "T", "0", "4", "Z">>

\* records inside the window: a path of two good points, a path that ends in
\* a malformed point, a walk, a visit
RecordPool ==
    {TimelineRecord(St02Z, St03Z, <<PtA, PtB>>),
     TimelineRecord(St03Z, St04Z, <<PtC, PtNoColon>>),
     ActivityRecord(St02Z, St03Z, StrWalking, PtA, PtC),
     VisitRecord(St02Z, St04Z, PtB)}

\* the input file: no JSON at all, or a list of records
Documents(pool, n) ==
    {[ok |-> FALSE, records |-> <<>>]} \cup
    {[ok |-> TRUE, records |-> r] : r \in SeqsUpTo(pool, n)}

\* the script at its first line
RunInit ==
    /\ pc = "config"
    /\ data \in Documents(RecordPool, MaxRecords)
    /\ df = NoFrame
    /\ data_timeline = <<>>
    /\ data_activity = <<>>
    /\ max_workers \in 1..MaxWorkers
    /\ Unassigned

RunNext ==
    \/ LoadConfig
    \/ LoadConfigMalformed
    \/ LoadGraphs
    \/ LoadGraphsEmpty
    \/ LoadData
    \/ FilterWindow
    \/ StripTimezone
    \/ PrepareLists
    \/ BuildTimelineRoutes
    \/ ClassifyRoutes
    \/ EnterBatch
    \/ Submit
    \/ \E i \in 1..Len(futures) : WorkerStart(i)
    \/ \E i \in 1..Len(futures) : WorkerFinish(i)
    \/ \E i \in 1..Len(futures) : Consume(i)
    \/ ReturnBatch
    \/ EnterActivities
    \/ ActivityStep
    \/ SaveOutput

RunSpec == RunInit /\ [][RunNext]_vars

-----------------------------------------------------------------------------
(* The window filter on records whose timestamps lie around the window,    *)
(* with "Z" and with explicit offsets.                                     *)

St01Z == <<"1", "T", "0", "1", "Z">>

St05Z == <<"1", "T", "0", "5", "Z">>

St02East == <<"1", "T", "0", "2", "+", "0", "2", ":", "0", "0">>

St00West == <<"1", "T", "0", "0", "-", "0", "2", ":", "0", "0">>

St01Utc == <<"1", "T", "0", "1", "+", "0", "0", ":", "0", "0">>

St06East == <<"1", "T", "0", "6", "+", "0", "2", ":", "0", "0">>

St05Utc == <<"1", "T", "0", "5", "+", "0", "0", ":", "0", "0">>

StartStamps == {St01Z, St02Z, St02East, St00West, St01Utc}

EndStamps == {St04Z, St05Z, St06East, St05Utc}

StampedRecords == {VisitRecord(b, e, PtA) : b \in StartStamps, e \in EndStamps}

FilterInit ==
    /\ pc = "start"
    /\ data \in Documents(StampedRecords, MaxStamped)
    /\ df = NoFrame
    /\ data_timeline = <<>>
    /\ data_activity = <<>>
    /\ max_workers = 1
    /\ Unassigned

FilterNext ==
    \/ LoadGraphs
    \/ LoadData
    \/ FilterWindow
    \/ StripTimezone

FilterSpec == FilterInit /\ [][FilterNext]_vars

-----------------------------------------------------------------------------
(* Reference definitions for the properties: stated over the inputs and    *)
(* the networks, without the parser or the path search of the model.       *)

\* the coordinates (lat, lon) a well-formed point names
PointCoord(p) ==
    CASE p = PtA -> <<0, 0>>
      [] p = PtB -> <<0, 2>>
      [] p = PtC -> <<0, 3>>
      [] p = PtD -> <<1, 0>>

\* the declared types that contain "walking" in some case
WalkingTypes == {StrWalking, TyUpper, TyNordic}

NetworkFor(type) == IF type \in WalkingTypes THEN walk_graph ELSE drive_graph

\* the nodes of G at the least distance from the point (lat, lon)
ClosestNodes(G, c) ==
    {n \in G.nodes : \A m \in G.nodes :
        DistSq(G.y[n], G.x[n], c[1], c[2]) <= DistSq(G.y[m], G.x[m], c[1], c[2])}

\* the walks of G without a repeated node, as lists of nodes
PathsOf(G) ==
    {p \in UNION {[1..k -> G.nodes] : k \in 1..Cardinality(G.nodes)} :
        /\ \A i \in 1..(Len(p) - 1) : <<p[i], p[i + 1]>> \in DOMAIN G.length
        /\ \A i, j \in 1..Len(p) : i # j => p[i] # p[j]}

WalkPaths == PathsOf(walk_graph)

DrivePaths == PathsOf(drive_graph)

PathsBetween(G, s, t) ==
    {p \in (IF G.name = "walk" THEN WalkPaths ELSE DrivePaths) : p[1] = s /\ p[Len(p)] = t}

RECURSIVE PathLength(_, _)
PathLength(G, p) ==
    IF Len(p) < 2 THEN 0
    ELSE G.length[<<p[1], p[2]>>] + PathLength(G, Tail(p))

\* the request can be routed: both points well formed, and the node snapped
\* from the end can be reached from the node snapped from the start
Routable(r) ==
    /\ r.start \in GoodPoints
    /\ r.end \in GoodPoints
    /\ \E s \in ClosestNodes(NetworkFor(r.type), PointCoord(r.start)),
          t \in ClosestNodes(NetworkFor(r.type), PointCoord(r.end)) :
          PathsBetween(NetworkFor(r.type), s, t) # {}

\* the bag of the Routes the requests of a list give, the failing ones left out
RECURSIVE RoutesDue(_)
RoutesDue(batch) ==
    IF Len(batch) = 0 THEN EmptyBag
    ELSE LET r == Head(batch) IN
         (IF Routable(r)
          THEN SetToBag({compute_single_route(r, walk_graph, drive_graph, <<>>).ret})
          ELSE EmptyBag) (+) RoutesDue(Tail(batch))

BatchReturned == pc \in {"activities", "loop", "done"}

-----------------------------------------------------------------------------
(* Properties.                                                             *)

\* C1: a batch is never aborted and can always take its next step whatever
\* requests fail, and at its end
\* the result holds the Route of every request that can be routed and nothing
\* for a request that cannot (no path, node without edges, malformed point):
\* for the parallel batch and for the sequential loop.
C1_FailuresAreIsolated ==
    /\ pc # "crashed"
    /\ pc = "batch" =>
          \/ Len(futures) < Len(data_timelines_routes_distance)
          \/ \E i \in 1..Len(futures) : futures[i].state = "pending" /\ WorkerFree
          \/ \E i \in 1..Len(futures) : futures[i].state \in {"running", "finished"}
          \/ \A i \in 1..Len(futures) : futures[i].state = "consumed"
    /\ pc = "loop" => next_activity \in 1..(Len(data_activity) + 1)
    /\ BatchReturned =>
          BagOfSeq(parallel_routes_timeline) = RoutesDue(data_timelines_routes_distance)
    /\ pc = "done" => BagOfSeq(routes_activity) = RoutesDue(data_activity)

\* a batch with a failing request between two that succeed has run to its end
C1_Witness ==
    /\ pc = "done"
    /\ Len(data_activity) = 3
    /\ Routable(data_activity[1]) /\ ~Routable(data_activity[2]) /\ Routable(data_activity[3])
    /\ Len(parallel_routes_timeline) = 2
    /\ Len(routes_activity) = 2

\* C5: the parallel batch and the sequential loop, given the same requests,
\* return the same Routes up to order, for every max_workers and every order
\* in which the workers finish.
C5_SequentialEqualsParallel ==
    (/\ pc = "done"
     /\ BagOfSeq([i \in 1..Len(data_activity) |->
                     Request(data_activity[i].time, data_activity[i].type,
                             data_activity[i].start, data_activity[i].end)])
          = BagOfSeq(data_timelines_routes_distance))
    => BagOfSeq(routes_activity) = BagOfSeq(parallel_routes_timeline)

\* two workers, and the parallel batch returned its Routes in another order
\* than the loop
C5_Witness ==
    /\ pc = "done"
    /\ max_workers = 2
    /\ Len(routes_activity) >= 2
    /\ routes_activity # parallel_routes_timeline
    /\ BagOfSeq(routes_activity) = BagOfSeq(parallel_routes_timeline)

\* C6: at most max_workers computations run at once, and no cache entry of a
\* worker shows in the cache of main or in another worker's cache: a worker's
\* cache holds nothing but keys of the points of its own request.
C6_BoundedAndPrivate ==
    /\ Cardinality(Running) <= max_workers
    /\ pc = "batch" => nearest_node_cache = <<>>
    /\ \A i \in 1..Len(futures) :
          \A key \in DOMAIN futures[i].cache :
             \E p \in {data_timelines_routes_distance[i].start,
                       data_timelines_routes_distance[i].end} :
                p \in GoodPoints /\ PointCoord(p) = key

\* every worker is busy while a request waits
C6_Witness ==
    /\ pc = "batch"
    /\ Cardinality(Running) = max_workers
    /\ \E i \in 1..Len(futures) : futures[i].state = "pending"

\* C2: a malformed point, of an activity or of the timeline, never ends the
\* process: main never stops on an unhandled exception.
C2_MalformedNeverFatal == pc # "crashed"

\* C3: the nearest-neighbour search runs at most once for each exact
\* (lat, lon) key on a network.
C3_SearchOncePerKey ==
    \A c \in BagToSet(calls) : c.fn = "nearest_nodes" => CopiesIn(c, calls) <= 1

\* the caches of a run: the dict of main and the copy each worker got
Caches == {nearest_node_cache} \cup {futures[i].cache : i \in 1..Len(futures)}

\* C4: the entries of a cache are node ids of one network only, and a lookup
\* on a network is answered with the node of that network nearest the point,
\* never with a node id that was resolved on the other network.
C4_OneNetworkPerCache ==
    /\ \A cache \in Caches :
          \E G \in {walk_graph, drive_graph} :
             \A key \in DOMAIN cache : cache[key] \in ClosestNodes(G, key)
    /\ \A c \in BagToSet(calls) :
          c.fn = "nearest_nodes" => c.ret[1] \in ClosestNodes(GraphNamed(c.G), c.args)

\* one point was looked up on both networks and snapped to two different nodes
C4_Witness ==
    \E c1, c2 \in BagToSet(calls) :
        /\ c1.fn = "nearest_nodes" /\ c2.fn = "nearest_nodes"
        /\ c1.G = "walk" /\ c2.G = "drive"
        /\ c1.args = c2.args
        /\ c1.ret # c2.ret

\* main is past the classification loop
ClassifiedDone == pc \in {"parallel", "batch", "activities", "loop", "done"}

\* two points are more than 1 km apart: 1 km is 2 cells of 500 m
FartherThanOneKm(a, b) == DistSq(a[1], a[2], b[1], b[2]) > 4

\* C7: the transition of two consecutive timeline points is labelled
\* "in a passenger vehicle" if and only if the points are more than 1.0 km
\* apart; at 1.0 km and below it is labelled "walking".
C7_DrivingIffOverOneKm ==
    ClassifiedDone =>
       /\ Len(data_timelines_routes_distance) = Len(TimelineRoutes(data_timeline))
       /\ \A i \in 1..Len(data_timelines_routes_distance) :
             data_timelines_routes_distance[i].type =
                IF FartherThanOneKm(PointCoord(data_timeline[i].point),
                                    PointCoord(data_timeline[i + 1].point))
                THEN StrVehicle ELSE StrWalking

\* a transition of exactly 1.0 km was labelled "walking"
C7_Witness ==
    /\ ClassifiedDone
    /\ \E i \in 1..Len(data_timelines_routes_distance) :
          /\ data_timeline[i].point = PtA
          /\ data_timeline[i + 1].point = PtB
          /\ data_timelines_routes_distance[i].type = StrWalking

\* the one request of the run has gone through compute_single_route
Computed == next_activity = 2

\* C8: a request is resolved and searched on the pedestrian network if and
\* only if its type contains "walking" in some case, and on the vehicular
\* network otherwise; both endpoints and the path search use the same network.
C8_NetworkByType ==
    /\ \A c \in BagToSet(calls) : c.G = NetworkFor(data_activity[1].type).name
    /\ (Computed /\ data_activity[1].start \in GoodPoints
                 /\ data_activity[1].end \in GoodPoints) =>
          /\ BagCardinality(calls) = 3
          /\ \E c \in BagToSet(calls) : c.fn = "shortest_path"

\* a request of type "Nordic Walking" was searched on the pedestrian network
C8_Witness ==
    /\ Computed
    /\ data_activity[1].type = TyNordic
    /\ \E c \in BagToSet(calls) : c.fn = "shortest_path" /\ c.G = "walk"

\* C9: a Route carries the type, time, start and end of its request as they
\* are in the request, and the request is left as it was.
C9_RoutePreservesRequest ==
    [][/\ data_activity' = data_activity
       /\ Len(routes_activity') > Len(routes_activity) =>
             LET r == routes_activity'[Len(routes_activity')]
                 a == data_activity[next_activity]
             IN  /\ r.type = a.type
                 /\ r.time = a.time
                 /\ r.start = a.start
                 /\ r.end = a.end]_vars

\* a Route was returned for a request of type "WALKING"
C9_Witness ==
    /\ Len(routes_activity) = 1
    /\ routes_activity[1].type = TyUpper
    /\ routes_activity[1].start = PtA
    /\ routes_activity[1].end = PtC

\* C10: when the node snapped from the end can be reached from the node
\* snapped from the start, a Route is returned whose coords are the
\* coordinates, in order, of the nodes of a path of least total length from
\* the one to the other.
C10_CoordsFollowShortestPath ==
    LET a == data_activity[1]
        G == NetworkFor(a.type)
    IN  (Computed /\ a.start \in GoodPoints /\ a.end \in GoodPoints) =>
           \A s \in ClosestNodes(G, PointCoord(a.start)),
              t \in ClosestNodes(G, PointCoord(a.end)) :
              PathsBetween(G, s, t) # {} =>
                 /\ Len(routes_activity) = 1
                 /\ Len(routes_activity[1].coords) >= 1
                 /\ \E p \in PathsBetween(G, s, t) :
                       /\ routes_activity[1].coords =
                             [i \in 1..Len(p) |-> <<G.y[p[i]], G.x[p[i]]>>]
                       /\ \A q \in PathsBetween(G, s, t) :
                             PathLength(G, p) <= PathLength(G, q)

\* a walk from A to C goes over the node between them, not along the longer
\* direct edge
C10_Witness ==
    /\ Computed
    /\ Len(routes_activity) = 1
    /\ routes_activity[1].start = PtA
    /\ routes_activity[1].coords = <<<<0, 0>>, <<0, 2>>, <<0, 3>>>>

\* the instant of a timestamp, in hours of UTC counted from day 0
UtcHour(stamp) ==
    CASE stamp = St01Z    -> 25
      [] stamp = St02Z    -> 26
      [] stamp = St03Z    -> 27
      [] stamp = St04Z    -> 28
      [] stamp = St05Z    -> 29
      [] stamp = St02East -> 24
      [] stamp = St00West -> 26
      [] stamp = St01Utc  -> 25
      [] stamp = St06East -> 28
      [] stamp = St05Utc  -> 29

\* the record begins after the window's start and ends before its end, as instants
InWindowUtc(record) ==
    /\ UtcHour(record.startTime) > UtcHour(window_start)
    /\ UtcHour(record.endTime) < UtcHour(window_end)

\* C11: the window filter keeps a record if and only if its startTime, taken
\* as an instant of UTC, is after the window's start and its endTime before
\* the window's end, whatever zone suffix the raw timestamp carries.
C11_FilterComparesUtc ==
    pc = "strip" => df.rows = SelectSeq(data.records, InWindowUtc)

\* C12: the output is written only when the parallel batch has returned and
\* the activity loop is over, and a run that ended on an error has written
\* no output.
C12_OutputOnlyAtTheEnd ==
    /\ pc = "crashed" => output = None
    /\ output # None =>
          /\ pc = "done"
          /\ Len(futures) = Len(data_timelines_routes_distance)
          /\ \A i \in 1..Len(futures) : futures[i].state = "consumed"
          /\ parallel_routes_timeline = results
          /\ next_activity = Len(data_activity) + 1
          /\ output.routes = routes_activity
          /\ output.routes_timeline = parallel_routes_timeline

\* a run from the first line of main wrote a document with a Route of each batch
C12_Witness ==
    /\ pc = "done"
    /\ data.ok /\ Len(data.records) = 3
    /\ Len(output.routes) = 1
    /\ Len(output.routes_timeline) = 1

\* the futures as_completed has yielded so far
Yielded == {i \in 1..Len(futures) : futures[i].state = "consumed"}

\* the requests of the parallel batch that give no Route
Failed ==
    {i \in 1..Len(data_timelines_routes_distance) :
        ~Routable(data_timelines_routes_distance[i])}

\* C13: parallel_preprocess_routes returns only when as_completed has yielded
\* the future of every one of the N requests, in whatever order they finish;
\* the progress bar counts the yielded futures, each yielded future with a
\* Route adds it once, and the returned list has N minus the number of failed
\* requests entries, one per request that did not fail.
C13_ExactlyOncePerRequest ==
    /\ pc = "batch" =>
          /\ pbar = Cardinality(Yielded)
          /\ Len(results) = Cardinality({i \in Yielded : futures[i].result # None})
    /\ BatchReturned =>
          /\ Len(futures) = Len(data_timelines_routes_distance)
          /\ Yielded = 1..Len(futures)
          /\ pbar = Len(data_timelines_routes_distance)
          /\ Len(parallel_routes_timeline)
                = Len(data_timelines_routes_distance) - Cardinality(Failed)
          /\ \A i \in 1..Len(futures) : i \in Failed <=> futures[i].result = None
          /\ BagOfSeq(parallel_routes_timeline)
                = BagOfSeq(SelectSeq([i \in 1..Len(futures) |-> futures[i].result],
                                     LAMBDA r : r # None))

\* three requests, the second failed, and the third was yielded before the first
C13_Witness ==
    /\ BatchReturned
    /\ Len(data_timelines_routes_distance) = 3
    /\ Failed = {2}
    /\ pbar = 3
    /\ Len(parallel_routes_timeline) = 2
    /\ futures[1].result # futures[3].result
    /\ parallel_routes_timeline = <<futures[3].result, futures[1].result>>

====
